---- MODULE Spec2Model ----
(***************************************************************************)
(* Model of the Meshage relay (MeshNetworkModule): controlled flooding     *)
(* with a hop-count limit and a time-windowed, hash-keyed duplicate cache. *)
(*                                                                         *)
(* Strings are sequences of one-character strings, so that the wire codec  *)
(* (split on "|||" capped at 4 fields, toIntOrNull, string templates) and  *)
(* the 32-bit String.hashCode are computed the way the code computes them. *)
(***************************************************************************)
EXTENDS Integers, Sequences, FiniteSets, Bags, TLC

\* ------------------------------------------------------------------------
\* Program constants
\* ------------------------------------------------------------------------
MESSAGE_SEPARATOR == <<"|", "|", "|">>

MAX_HOPS == 10

MESSAGE_CACHE_DURATION == 60000

\* ------------------------------------------------------------------------
\* Bounds of the model
\* ------------------------------------------------------------------------
\* The clock advances MaxTicks times, by one retention window each time.
MaxTicks == 2

\* Events a device emits (the length of its event log).
MaxEvents == 3

\* Calls of sendMessage per device.
MaxSends == 1

\* ------------------------------------------------------------------------
\* Strings
\* ------------------------------------------------------------------------
Digits == <<"0", "1", "2", "3", "4", "5", "6", "7", "8", "9">>

DigitChars == {Digits[i] : i \in 1..10}

\* The value of a digit character.
DigitVal(c) == (CHOOSE i \in 1..10 : Digits[i] = c) - 1

\* The characters the strings of the model are made of.
Chars ==
  DigitChars \cup {"-", "+", ":", "|", "A", "B", "H", "a", "b", "c", "i", "l", "n", "o", "x",
                   "C", "D", "E", "G", "I", "M", "R", "S", "T", "U", "_"}

\* UTF-16 code unit of each character the model uses.
CharCode(c) ==
  CASE c \in DigitChars -> 48 + DigitVal(c)
    [] c = "-" -> 45
    [] c = "+" -> 43
    [] c = ":" -> 58
    [] c = "|" -> 124
    [] c = "A" -> 65
    [] c = "B" -> 66
    [] c = "H" -> 72
    [] c = "a" -> 97
    [] c = "b" -> 98
    [] c = "c" -> 99
    [] c = "i" -> 105
    [] c = "l" -> 108
    [] c = "n" -> 110
    [] c = "o" -> 111
    [] c = "x" -> 120
    [] c = "C" -> 67
    [] c = "D" -> 68
    [] c = "E" -> 69
    [] c = "G" -> 71
    [] c = "I" -> 73
    [] c = "M" -> 77
    [] c = "R" -> 82
    [] c = "S" -> 83
    [] c = "T" -> 84
    [] c = "U" -> 85
    [] c = "_" -> 95

\* Kotlin Int.toString(): decimal digits, "-" in front of a negative value.
Decimal[i \in Nat] ==
  IF i < 10 THEN <<Digits[i + 1]>>
  ELSE Decimal[i \div 10] \o <<Digits[(i % 10) + 1]>>

NatToString(i) == Decimal[i]

IntToString(i) == IF i < 0 THEN <<"-">> \o NatToString(0 - i) ELSE NatToString(i)

\* s has sub at position i (1-based).
HasAt(s, sub, i) ==
  /\ i + Len(sub) - 1 <= Len(s)
  /\ \A k \in 1..Len(sub) : s[i + k - 1] = sub[k]

\* Position of the first occurrence of sub in s at or after i, 0 when there
\* is none.
IndexFrom(s, sub, i) ==
  LET found == {j \in i..(Len(s) - Len(sub) + 1) : HasAt(s, sub, j)}
  IN IF found = {} THEN 0 ELSE CHOOSE j \in found : \A k \in found : j <= k

IndexOf(s, sub) == IndexFrom(s, sub, 1)

\* Kotlin String.split(delimiter, limit): at most `limit` fields, the last
\* field keeps the rest of the string, delimiters included.
SplitFields[s \in Seq(Chars), delim \in Seq(Chars), limit \in Nat \ {0}] ==
  LET i == IndexOf(s, delim) IN
  IF limit = 1 \/ i = 0 THEN <<s>>
  ELSE <<SubSeq(s, 1, i - 1)>> \o SplitFields[SubSeq(s, i + Len(delim), Len(s)), delim, limit - 1]

Split(s, delim, limit) == SplitFields[s, delim, limit]

\* Kotlin String.toIntOrNull(): <<>> stands for null, <<v>> for the value v.
\* An optional sign, then at least one digit, and the value has to fit a
\* 32-bit Int.  The value is accumulated negated, as the library does, so
\* that Int.MIN_VALUE is representable and nothing overflows.
ParseNeg[ds \in Seq(Chars), acc \in Int, limit \in Int] ==
  IF ds = <<>> THEN <<acc>>
  ELSE IF Head(ds) \notin DigitChars THEN <<>>
  ELSE LET d == DigitVal(Head(ds)) IN
       IF acc < (limit + d) \div 10 + (IF (limit + d) % 10 = 0 THEN 0 ELSE 1)
       THEN <<>>
       ELSE ParseNeg[Tail(ds), acc * 10 - d, limit]

IntOrNull[s \in Seq(Chars)] ==
  IF s = <<>> THEN <<>>
  ELSE IF Head(s) = "-"
       THEN IF Len(s) = 1 THEN <<>> ELSE ParseNeg[Tail(s), 0, -2147483647 - 1]
  ELSE IF Head(s) = "+"
       THEN IF Len(s) = 1 THEN <<>>
            ELSE LET r == ParseNeg[Tail(s), 0, -2147483647] IN
                 IF r = <<>> THEN <<>> ELSE <<0 - r[1]>>
  ELSE LET r == ParseNeg[s, 0, -2147483647] IN
       IF r = <<>> THEN <<>> ELSE <<0 - r[1]>>

toIntOrNull(s) == IntOrNull[s]

\* Java String.hashCode(): h = 31*h + c over the characters, in 32-bit
\* arithmetic.  The 32-bit value is kept as <<high 16 bits, low 16 bits>>.
HashStep[h \in (0..65535) \X (0..65535), c \in 0..65535] ==
  <<(31 * h[1] + (31 * h[2] + c) \div 65536) % 65536, (31 * h[2] + c) % 65536>>

HashOf[s \in Seq(Chars)] ==
  IF s = <<>> THEN <<0, 0>>
  ELSE HashStep[HashOf[SubSeq(s, 1, Len(s) - 1)], CharCode(s[Len(s)])]

hashCode(s) == HashOf[s]

\* ------------------------------------------------------------------------
\* Devices, links and the inputs the model draws from
\* ------------------------------------------------------------------------
\* The devices, in the order of the chain topology.  A link (endpoint) is
\* named by the device at its other end.
ChainOrder == <<"A", "B", "C", "D", "E", "F", "G", "H", "I", "J", "K", "L", "M">>

Node == {ChainOrder[i] : i \in 1..Len(ChainOrder)}

\* Position of a device in the chain, 0 for the first.
Position(n) == (CHOOSE i \in 1..Len(ChainOrder) : ChainOrder[i] = n) - 1

\* The device clocks are not synchronised: device n reads now + ClockOffset(n).
ClockOffset(n) == Position(n)

\* The device whose handlers run in the single-device specifications, and
\* the links to its peers, which are its environment there.
Local == "A"

Peers == {"B", "C"}

Contents == {<<"H", "i">>}

Names == {<<"n">>}

\* The origin id of a peer.
RemoteOrigin == <<"l", "o", "c", "a", "l", "-", "1">>

\* Hop-count fields of the payloads the peers deliver in SpecHops: hop 0,
\* the last hop that is forwarded, the hop limit, one above it, and two
\* fields that are no hop count.
HopFields == {<<"0">>, <<"9">>, <<"1", "0">>, <<"1", "1">>, <<"a", "b", "c">>, <<"-", "3">>}

\* A payload with two fields only.
MalformedPayloads == {<<"a">> \o MESSAGE_SEPARATOR \o <<"b">>}

NoAddress == "null"

VARIABLES
  connectedEndpoints,  \* [Node -> SUBSET Node]: connectedEndpoints of each device
  discoveredEndpoints, \* [Node -> [endpoint -> name]]: discoveredEndpoints of each device
  seenMessages,        \* [Node -> [hash -> timestamp]]: seenMessages of each device
  localEndpointId,     \* [Node -> string]: localEndpointId, <<>> while unset
  now,                 \* the time, in milliseconds
  events,              \* [Node -> Seq(event)]: what sendEvent emitted, in order
  net,                 \* bag of payloads handed to sendPayload and not yet received
  sendTasks,           \* bag of sendPayload tasks of targeted sends, not yet completed
  last,                \* the handler that ran last, and its input
  messages,            \* usePersonalChat: the messages of the open personal chat
  chatHistory,         \* [friend id -> Seq(message)]: what saveChatHistory stored
  connectedPeerIds,    \* usePersonalChat: [device address -> persistent id]
  handled              \* events of the device the listeners of the chat have run for

\* The state of the personal chat screen of the application on device Local.
chatVars == <<messages, chatHistory, connectedPeerIds, handled>>

vars ==
  <<connectedEndpoints, discoveredEndpoints, seenMessages, localEndpointId, now, events, net, sendTasks, last,
    chatVars>>

\* System.currentTimeMillis() on device n
currentTimeMillis(n) == now + ClockOffset(n)

\* ------------------------------------------------------------------------
\* The events of the module (sendEvent)
\* ------------------------------------------------------------------------
\* The events the log keeps: those of the relay, of the send path and of
\* disconnect().  The events of the connection screens are emitted and not
\* kept.
RecordedEvents == {"onMessageReceived", "onMessageSent", "onMessageError", "onDisconnected"}

\* The field `at` is not part of the event: it records when it was emitted.
Event(name, message, fromAddress, senderName, hopCount, timestamp, targetAddress, error) ==
  [name |-> name, message |-> message, fromAddress |-> fromAddress,
   senderName |-> senderName, hopCount |-> hopCount, timestamp |-> timestamp,
   targetAddress |-> targetAddress, error |-> error, at |-> 0]

MessageReceivedEvent(message, fromAddress, senderName, hopCount, timestamp) ==
  Event("onMessageReceived", message, fromAddress, senderName, hopCount, timestamp, NoAddress, "")

MessageSentEvent(message, targetAddress) ==
  Event("onMessageSent", message, <<>>, <<>>, 0, 0, targetAddress, "")

MessageErrorEvent(error) ==
  Event("onMessageError", <<>>, <<>>, <<>>, 0, 0, NoAddress, error)

DisconnectedEvent ==
  Event("onDisconnected", <<>>, <<>>, <<>>, 0, 0, NoAddress, "")

\* onConnectionChanged, onPeerConnected, onConnectionError, onPeerDisconnected
\* and the onPeersFound of updatePeersList
ConnectionEvent(name, endpointId) ==
  Event(name, <<>>, <<>>, <<>>, 0, 0, endpointId, "")

sendEvent(n, ev) ==
  IF ev.name \in RecordedEvents
  THEN /\ Len(events[n]) < MaxEvents
       /\ events' = [events EXCEPT ![n] = Append(@, [ev EXCEPT !.at = currentTimeMillis(n)])]
  ELSE events' = events

Ran(op, n, endpointId, raw) ==
  last' = [op |-> op, node |-> n, endpoint |-> endpointId, raw |-> raw]

\* ------------------------------------------------------------------------
\* The pure parts of the handlers
\* ------------------------------------------------------------------------
\* "$originalSenderId|||$senderName|||$hopCount|||$messageContent", with the
\* hop count already a string.
formatFields(originalSenderId, senderName, hopField, messageContent) ==
  originalSenderId \o MESSAGE_SEPARATOR \o senderName \o MESSAGE_SEPARATOR
    \o hopField \o MESSAGE_SEPARATOR \o messageContent

formatMessage(originalSenderId, senderName, hopCount, messageContent) ==
  formatFields(originalSenderId, senderName, IntToString(hopCount), messageContent)

\* A split that fills the fields that are missing with empty strings.
parsePartsPadded(rawMessage) ==
  LET parts == Split(rawMessage, MESSAGE_SEPARATOR, 4)
  IN parts \o [i \in 1..(4 - Len(parts)) |-> <<>>]

\* rawMessage.split(MESSAGE_SEPARATOR, limit = 4)
parseParts(rawMessage) == Split(rawMessage, MESSAGE_SEPARATOR, 4)

\* parts.size != 4
isInvalidFormat(parts) == Len(parts) # 4

\* parts[2].toIntOrNull() ?: 0
parseHopCount(field) ==
  LET r == toIntOrNull(field) IN IF r = <<>> THEN 0 ELSE r[1]

\* The key built without the ":" between the two parts.
messageHashUnseparated(originalSenderId, messageContent) ==
  hashCode(originalSenderId \o messageContent)

\* "$originalSenderId:$messageContent".hashCode().toString()
messageHash(originalSenderId, messageContent) ==
  hashCode(originalSenderId \o <<":">> \o messageContent)

\* The sent message hashed with the display name in place of the origin id.
sentMessageHashOfName(localId, senderName, message) ==
  hashCode(senderName \o <<":">> \o message)

\* "$localEndpointId:$message".hashCode().toString() of sendMessage
sentMessageHash(localId, senderName, message) ==
  hashCode(localId \o <<":">> \o message)

\* A cache in which no key is ever found.
containsNoKey(seen, hash) == FALSE

\* seenMessages.containsKey(messageHash)
containsKey(seen, hash) == hash \in DOMAIN seen

\* A store that records nothing.
markNothing(seen, hash, currentTime) == seen

\* A store that leaves the record of a key it already holds.
markSeenIfAbsent(seen, hash, currentTime) ==
  IF hash \in DOMAIN seen THEN seen ELSE (hash :> currentTime) @@ seen

\* seenMessages[messageHash] = currentTime
markSeen(seen, hash, currentTime) == (hash :> currentTime) @@ seen

\* The eviction test with >= in place of >: a record aged exactly one window
\* is removed too.
cleanupAtWindow(seen, currentTime) ==
  [h \in {k \in DOMAIN seen : ~(currentTime - seen[k] >= MESSAGE_CACHE_DURATION)} |-> seen[h]]

\* The eviction test with the comparison inverted: young records are removed.
cleanupYoungMessages(seen, currentTime) ==
  [h \in {k \in DOMAIN seen : ~(currentTime - seen[k] < MESSAGE_CACHE_DURATION)} |-> seen[h]]

\* seenMessages.entries.removeIf { currentTime - it.value > MESSAGE_CACHE_DURATION }
cleanupOldMessages(seen, currentTime) ==
  [h \in {k \in DOMAIN seen : ~(currentTime - seen[k] > MESSAGE_CACHE_DURATION)} |-> seen[h]]

\* The hop test with > in place of >=.
exceededMaxHops(hopCount) == hopCount > MAX_HOPS

\* The hop test one hop early.
reachedLastHop(hopCount) == hopCount >= MAX_HOPS - 1

\* A forward that leaves the hop count as it came.
sameHopCount(hopCount) == hopCount

\* val newHopCount = hopCount + 1
newHopCount(hopCount) == hopCount + 1

\* hopCount >= MAX_HOPS: the message is not forwarded
reachedMaxHops(hopCount) == hopCount >= MAX_HOPS

\* The outcome of connectionsClient.sendPayload(to, payload) made by device
\* `from`: the transmission fails when the device at the far end has given
\* up the link (its disconnect came first, `from` has not yet had its
\* onDisconnected). A peer that is not a device of the model takes it.
transmits(from, to) ==
  to \in DOMAIN connectedEndpoints => from \in connectedEndpoints[to]

\* A fan-out that a failure on one link stops on all of them.
sendPayloadAllOrNothing(inFlight, from, to, raw) ==
  IF \A t \in to : transmits(from, t)
  THEN inFlight (+) SetToBag({[from |-> from, to |-> t, raw |-> raw] : t \in to})
  ELSE inFlight

\* connectionsClient.sendPayload(endpointId, payload) for each endpoint of
\* `to`; a failed transmission puts nothing in flight.
sendPayload(inFlight, from, to, raw) ==
  inFlight (+) SetToBag({[from |-> from, to |-> t, raw |-> raw] :
                          t \in {u \in to : transmits(from, u)}})

\* A fan-out that does not leave out the arrival link.
forwardTargetsAll(connected, senderEndpointId) == connected

\* The endpoints forwardMessageToOthers sends to.
forwardTargets(connected, senderEndpointId) ==
  {endpointId \in connected : endpointId # senderEndpointId}

forwardMessageToOthers(inFlight, n, message, senderEndpointId) ==
  sendPayload(inFlight, n, forwardTargets(connectedEndpoints[n], senderEndpointId), message)

\* "local-${System.currentTimeMillis()}"
newLocalEndpointId(millis) ==
  <<"l", "o", "c", "a", "l", "-">> \o IntToString(millis)

\* An assignment without the isEmpty test.
assignLocalEndpointId(id, millis) == newLocalEndpointId(millis)

\* if (localEndpointId.isEmpty()) localEndpointId = "local-..."
ensureLocalEndpointId(id, millis) ==
  IF id = <<>> THEN newLocalEndpointId(millis) ELSE id

\* A disconnect that leaves the cache as it is.
keepSeen(seen) == seen

\* seenMessages.clear()
clearSeen(seen) == << >>

EventsNamed(n, name) == {i \in 1..Len(events[n]) : events[n][i].name = name}

CountEvents(n, name) == Cardinality(EventsNamed(n, name))

\* ------------------------------------------------------------------------
\* The handlers
\* ------------------------------------------------------------------------
\* ConnectionLifecycleCallback.onConnectionResult
onConnectionResult(n, endpointId, isSuccess) ==
  /\ endpointId # n
  /\ endpointId \notin connectedEndpoints[n]
  /\ Ran("onConnectionResult", n, endpointId, <<>>)
  /\ IF isSuccess
     THEN /\ connectedEndpoints' = [connectedEndpoints EXCEPT ![n] = @ \cup {endpointId}]
          /\ localEndpointId' = [localEndpointId EXCEPT ![n] =
                                   ensureLocalEndpointId(@, currentTimeMillis(n))]
          /\ sendEvent(n, ConnectionEvent("onConnectionChanged", endpointId))
          /\ sendEvent(n, ConnectionEvent("onPeerConnected", endpointId))
          /\ sendEvent(n, ConnectionEvent("onPeersFound", NoAddress))
     ELSE /\ sendEvent(n, ConnectionEvent("onConnectionError", endpointId))
          /\ UNCHANGED <<connectedEndpoints, localEndpointId>>
  /\ UNCHANGED <<discoveredEndpoints, seenMessages, now, net, sendTasks, chatVars>>

\* ConnectionLifecycleCallback.onDisconnected
onDisconnected(n, endpointId) ==
  /\ endpointId \in connectedEndpoints[n]
  /\ Ran("onDisconnected", n, endpointId, <<>>)
  /\ connectedEndpoints' = [connectedEndpoints EXCEPT ![n] = @ \ {endpointId}]
  /\ sendEvent(n, ConnectionEvent("onPeerDisconnected", endpointId))
  /\ sendEvent(n, ConnectionEvent("onPeersFound", NoAddress))
  /\ UNCHANGED <<discoveredEndpoints, seenMessages, localEndpointId, now, net, sendTasks, chatVars>>

\* PayloadCallback.onPayloadReceived for a BYTES payload; inFlight is what is
\* in flight once this payload has been taken off the link.
onPayloadReceived(n, endpointId, rawMessage, inFlight) ==
  \E parts \in {parseParts(rawMessage)} :
  /\ Ran("onPayloadReceived", n, endpointId, rawMessage)
  /\ IF isInvalidFormat(parts)
     THEN /\ net' = inFlight
          /\ UNCHANGED <<seenMessages, events>>
     ELSE LET originalSenderId == parts[1]
              senderName == parts[2]
              hopCount == parseHopCount(parts[3])
              messageContent == parts[4]
              hash == messageHash(originalSenderId, messageContent)
              currentTime == currentTimeMillis(n)
          IN IF containsKey(seenMessages[n], hash)
             THEN /\ net' = inFlight
                  /\ UNCHANGED <<seenMessages, events>>
             ELSE /\ seenMessages' = [seenMessages EXCEPT ![n] =
                        cleanupOldMessages(markSeen(@, hash, currentTime), currentTime)]
                  /\ sendEvent(n, MessageReceivedEvent(messageContent, originalSenderId,
                                                       senderName, hopCount, currentTime))
                  /\ IF reachedMaxHops(hopCount)
                     THEN net' = inFlight
                     ELSE net' = forwardMessageToOthers(inFlight, n,
                                   formatMessage(originalSenderId, senderName,
                                                 newHopCount(hopCount), messageContent),
                                   endpointId)
  /\ UNCHANGED <<connectedEndpoints, discoveredEndpoints, localEndpointId, now, sendTasks, chatVars>>

\* EndpointDiscoveryCallback.onEndpointFound
onEndpointFound(n, endpointId, endpointName) ==
  /\ endpointId # n
  /\ Ran("onEndpointFound", n, endpointId, endpointName)
  /\ discoveredEndpoints' = [discoveredEndpoints EXCEPT ![n] = (endpointId :> endpointName) @@ @]
  /\ sendEvent(n, ConnectionEvent("onPeersFound", NoAddress))
  /\ UNCHANGED <<connectedEndpoints, seenMessages, localEndpointId, now, net, sendTasks, chatVars>>

\* EndpointDiscoveryCallback.onEndpointLost
onEndpointLost(n, endpointId) ==
  /\ Ran("onEndpointLost", n, endpointId, <<>>)
  /\ discoveredEndpoints' = [discoveredEndpoints EXCEPT ![n] =
                               [e \in DOMAIN @ \ {endpointId} |-> @[e]]]
  /\ sendEvent(n, ConnectionEvent("onPeersFound", NoAddress))
  /\ UNCHANGED <<connectedEndpoints, seenMessages, localEndpointId, now, net, sendTasks, chatVars>>

\* @ReactMethod disconnect
disconnect(n) ==
  /\ Ran("disconnect", n, NoAddress, <<>>)
  /\ connectedEndpoints' = [connectedEndpoints EXCEPT ![n] = {}]
  /\ discoveredEndpoints' = [discoveredEndpoints EXCEPT ![n] = << >>]
  /\ seenMessages' = [seenMessages EXCEPT ![n] = clearSeen(@)]
  /\ sendEvent(n, DisconnectedEvent)
  /\ UNCHANGED <<localEndpointId, now, net, sendTasks, chatVars>>

\* A test that takes every set of links for a non-empty one.
isNeverEmpty(connected) == FALSE

\* connectedEndpoints.isEmpty()
isEmpty(connected) == connected = {}

\* The sendMessage calls device n has made.
SendsOf(n) ==
  CountEvents(n, "onMessageSent") + CountEvents(n, "onMessageError")
    + BagCardinality([t \in {u \in DOMAIN sendTasks : u.node = n} |-> sendTasks[t]])

\* @ReactMethod sendMessage; targetAddress is NoAddress for a broadcast.
sendMessage(n, message, senderName, targetAddress) ==
  LET id == ensureLocalEndpointId(localEndpointId[n], currentTimeMillis(n))
      formattedMessage == formatMessage(id, senderName, 0, message)
      hash == sentMessageHash(id, senderName, message)
  IN
  /\ SendsOf(n) < MaxSends
  /\ targetAddress # n
  /\ Ran("sendMessage", n, targetAddress, message)
  /\ localEndpointId' = [localEndpointId EXCEPT ![n] = id]
  /\ seenMessages' = [seenMessages EXCEPT ![n] = markSeen(@, hash, currentTimeMillis(n))]
  /\ IF targetAddress # NoAddress
     THEN \* sendPayload succeeds when the target is a connected endpoint
          LET ok == targetAddress \in connectedEndpoints[n] /\ transmits(n, targetAddress) IN
          /\ net' = sendPayload(net, n, IF ok THEN {targetAddress} ELSE {}, formattedMessage)
          /\ sendTasks' = sendTasks (+) SetToBag({[node |-> n, message |-> message,
                                                   targetAddress |-> targetAddress,
                                                   success |-> ok]})
          /\ UNCHANGED events
     ELSE IF isEmpty(connectedEndpoints[n])
          THEN /\ sendEvent(n, MessageErrorEvent("No connected peers"))
               /\ UNCHANGED <<net, sendTasks>>
          ELSE /\ net' = sendPayload(net, n, connectedEndpoints[n], formattedMessage)
               /\ sendEvent(n, MessageSentEvent(message, NoAddress))
               /\ UNCHANGED sendTasks
  /\ UNCHANGED <<connectedEndpoints, discoveredEndpoints, now, chatVars>>

\* addOnSuccessListener / addOnFailureListener of a targeted send
onSendPayloadResult(task) ==
  /\ BagIn(task, sendTasks)
  /\ Ran("onSendPayloadResult", task.node, task.targetAddress, task.message)
  /\ sendTasks' = sendTasks (-) SetToBag({task})
  /\ IF task.success
     THEN sendEvent(task.node, MessageSentEvent(task.message, task.targetAddress))
     ELSE sendEvent(task.node, MessageErrorEvent("send failed"))
  /\ UNCHANGED <<connectedEndpoints, discoveredEndpoints, seenMessages, localEndpointId, now, net, chatVars>>

\* Time passes.
Tick ==
  /\ now < MaxTicks * MESSAGE_CACHE_DURATION
  /\ now' = now + MESSAGE_CACHE_DURATION
  /\ Ran("tick", Local, NoAddress, <<>>)
  /\ UNCHANGED <<connectedEndpoints, discoveredEndpoints, seenMessages, localEndpointId, events, net, sendTasks, chatVars>>

\* ------------------------------------------------------------------------
\* Spec: the receive path of one device, its links and its clock
\* ------------------------------------------------------------------------
\* The payloads a peer delivers to device n: an envelope of a remote origin,
\* an envelope carrying n's own origin id, and a malformed payload.
InboundPayloads(n) ==
  {formatFields(RemoteOrigin, s, <<"0">>, c) : s \in Names, c \in Contents}
  \cup {formatFields(localEndpointId[n], s, <<"1">>, c) : s \in Names, c \in Contents}
  \cup MalformedPayloads

\* The personal chat as it is mounted: no message, no stored history, no
\* peer known.
ChatClosed ==
  /\ messages = <<>>
  /\ chatHistory = << >>
  /\ connectedPeerIds = << >>
  /\ handled = 0

\* The state after construction of the devices of ds.
Fresh(ds) ==
  /\ connectedEndpoints = [n \in ds |-> {}]
  /\ discoveredEndpoints = [n \in ds |-> << >>]
  /\ seenMessages = [n \in ds |-> << >>]
  /\ localEndpointId = [n \in ds |-> <<>>]
  /\ now = 0
  /\ events = [n \in ds |-> <<>>]
  /\ net = EmptyBag
  /\ sendTasks = EmptyBag
  /\ last = [op |-> "init", node |-> Local, endpoint |-> NoAddress, raw |-> <<>>]
  /\ ChatClosed

Init == Fresh({Local})

ConnectionResult == \E e \in Peers, ok \in BOOLEAN : onConnectionResult(Local, e, ok)

LinkDown == \E e \in Peers : onDisconnected(Local, e)

\* A peer's payload arrives on a connected link.
PayloadReceived ==
  \E e \in connectedEndpoints[Local] : \E raw \in InboundPayloads(Local) :
    onPayloadReceived(Local, e, raw, net)

Disconnect == disconnect(Local)

\* The peers take the payloads sent to them off the links.
PeersTake ==
  /\ net # EmptyBag
  /\ net' = EmptyBag
  /\ UNCHANGED <<connectedEndpoints, discoveredEndpoints, seenMessages, localEndpointId, now, events, sendTasks, last, chatVars>>

\* The links are drained before the next handler of the device runs, so net
\* holds what the handler that ran last has sent.
Next ==
  \/ net = EmptyBag /\ ConnectionResult
  \/ net = EmptyBag /\ LinkDown
  \/ net = EmptyBag /\ PayloadReceived
  \/ net = EmptyBag /\ Disconnect
  \/ net = EmptyBag /\ Tick
  \/ PeersTake

Spec == Init /\ [][Next]_vars

\* ------------------------------------------------------------------------
\* SpecSend: one device that also originates messages (broadcast sends)
\* ------------------------------------------------------------------------
LinkUp == \E e \in Peers : onConnectionResult(Local, e, TRUE)

Broadcast == \E m \in Contents, s \in Names : sendMessage(Local, m, s, NoAddress)

\* An envelope arrives on a connected link: one of a remote origin, or the
\* device's own message coming back.
EnvelopeReceived ==
  \E e \in connectedEndpoints[Local] :
    \E raw \in InboundPayloads(Local) \ MalformedPayloads :
      onPayloadReceived(Local, e, raw, net)

NextSend ==
  \/ net = EmptyBag /\ LinkUp
  \/ net = EmptyBag /\ EnvelopeReceived
  \/ net = EmptyBag /\ Broadcast
  \/ net = EmptyBag /\ Disconnect
  \/ net = EmptyBag /\ Tick
  \/ PeersTake

SpecSend == Init /\ [][NextSend]_vars

\* ------------------------------------------------------------------------
\* SpecHops: one device receiving envelopes at every hop field
\* ------------------------------------------------------------------------
HopPayloads ==
  {formatFields(RemoteOrigin, s, h, c) : s \in Names, h \in HopFields, c \in Contents}

HopPayloadReceived ==
  \E e \in connectedEndpoints[Local] : \E raw \in HopPayloads :
    onPayloadReceived(Local, e, raw, net)

NextHops ==
  \/ net = EmptyBag /\ ConnectionResult
  \/ net = EmptyBag /\ LinkDown
  \/ net = EmptyBag /\ HopPayloadReceived
  \/ net = EmptyBag /\ Disconnect
  \/ PeersTake

SpecHops == Init /\ [][NextHops]_vars

\* ------------------------------------------------------------------------
\* SpecMesh: several devices on stable links; one of them originates
\* ------------------------------------------------------------------------
\* The links of a topology, as the set of neighbours of each device.
Neighbours(edges, n) == {m \in Node : {n, m} \in edges}

ChainEdges == {{ChainOrder[i], ChainOrder[i + 1]} : i \in 1..(Len(ChainOrder) - 1)}

TriangleEdges == {{"A", "B"}, {"B", "C"}, {"A", "C"}}

RingEdges == {{"A", "B"}, {"B", "C"}, {"C", "D"}, {"D", "A"}}

Topologies == {TriangleEdges, RingEdges, ChainEdges}

\* The device that calls sendMessage.
Sender == "A"

\* Every link of the topology is up: each device had its connection results
\* at time 0 of the model, which set its localEndpointId.
Connected(edges) ==
  LET ds == UNION edges IN
  /\ connectedEndpoints = [n \in ds |-> Neighbours(edges, n)]
  /\ discoveredEndpoints = [n \in ds |-> << >>]
  /\ seenMessages = [n \in ds |-> << >>]
  /\ localEndpointId = [n \in ds |-> newLocalEndpointId(ClockOffset(n))]
  /\ now = 0
  /\ events = [n \in ds |-> <<>>]
  /\ net = EmptyBag
  /\ sendTasks = EmptyBag
  /\ last = [op |-> "init", node |-> Local, endpoint |-> NoAddress, raw |-> <<>>]
  /\ ChatClosed

InitMesh == \E edges \in Topologies : Connected(edges)

MeshSend ==
  \E m \in Contents, s \in Names, t \in connectedEndpoints[Sender] \cup {NoAddress} :
    sendMessage(Sender, m, s, t)

SendResult == \E task \in DOMAIN sendTasks : onSendPayloadResult(task)

\* A payload in flight arrives at the other end of its link.
Deliver ==
  \E m \in DOMAIN net :
    /\ m.from \in connectedEndpoints[m.to]
    /\ onPayloadReceived(m.to, m.from, m.raw, net (-) SetToBag({m}))

\* Nothing is in flight and no send is waiting for its result.
Quiet == net = EmptyBag /\ sendTasks = EmptyBag

\* Time passes between the rounds of a message, not during them: no device
\* of the mesh receives a second pair, so none ever evicts a record.
NextMesh ==
  \/ MeshSend
  \/ SendResult
  \/ Deliver
  \/ Quiet /\ Tick

SpecMesh == InitMesh /\ [][NextMesh]_vars

\* Every payload in flight is eventually delivered.
SpecMeshFair == SpecMesh /\ WF_vars(Deliver)

\* ------------------------------------------------------------------------
\* What the claims are stated in
\* ------------------------------------------------------------------------
Devices == DOMAIN events

IsDelivery(ev) == ev.name = "onMessageReceived"

\* The positions of the onMessageReceived events in the log of device n.
Deliveries(n) == {i \in 1..Len(events[n]) : IsDelivery(events[n][i])}

\* The positions of the onMessageReceived events of (origin, content).
DeliveriesOf(n, origin, content) ==
  {i \in Deliveries(n) : events[n][i].fromAddress = origin /\ events[n][i].message = content}

\* disconnect() was called between positions i and j of the log of n.
DisconnectBetween(n, i, j) ==
  \E k \in (i + 1)..(j - 1) : events[n][k].name = "onDisconnected"

\* The last handler was onPayloadReceived, for a payload of four fields.
ReceivedEnvelope == last.op = "onPayloadReceived" /\ Len(parseParts(last.raw)) = 4

LastOrigin == parseParts(last.raw)[1]

LastHopField == parseParts(last.raw)[3]

LastContent == parseParts(last.raw)[4]

\* ------------------------------------------------------------------------
\* C1  No-duplicate-delivery
\* ------------------------------------------------------------------------
\* An envelope that was received has an onMessageReceived event.
DeliveredOnce ==
  ReceivedEnvelope => DeliveriesOf(last.node, LastOrigin, LastContent) # {}

SentOf(n, content) ==
  {i \in EventsNamed(n, "onMessageSent") : events[n][i].message = content}

\* C2 as stated: a device never emits onMessageReceived for a pair
\* (its own origin id, content) after it has sent that content, and a
\* payload of such a pair makes it send nothing.
C2_AsStated ==
  \A n \in Devices : \A c \in Contents : \A i \in SentOf(n, c) :
    /\ \A j \in DeliveriesOf(n, localEndpointId[n], c) : j < i
    /\ (ReceivedEnvelope /\ last.node = n /\ LastOrigin = localEndpointId[n] /\ LastContent = c)
         => net = EmptyBag

\* C2 amended: a device that has sent a content and receives an envelope with
\* its own origin id and that content within one retention window of the
\* send, with no disconnect() call in between, neither emits
\* onMessageReceived for it nor forwards it.
C2_NoEcho ==
  \A n \in Devices : \A c \in Contents : \A i \in SentOf(n, c) :
    /\ \A j \in DeliveriesOf(n, localEndpointId[n], c) :
         \/ j < i
         \/ events[n][j].timestamp - events[n][i].at > MESSAGE_CACHE_DURATION
         \/ DisconnectBetween(n, i, j)
    /\ (/\ ReceivedEnvelope /\ last.node = n
        /\ LastOrigin = localEndpointId[n] /\ LastContent = c
        /\ currentTimeMillis(n) - events[n][i].at <= MESSAGE_CACHE_DURATION
        /\ ~DisconnectBetween(n, i, Len(events[n]) + 1))
         => net = EmptyBag

\* The echo of a sent message arrived one retention window after the send,
\* with two links up, and was neither delivered nor forwarded.
C2_Witness ==
  /\ ReceivedEnvelope
  /\ LastOrigin = localEndpointId[Local]
  /\ connectedEndpoints[Local] = Peers
  /\ EventsNamed(Local, "onDisconnected") = {}
  /\ \E i \in SentOf(Local, LastContent) :
       currentTimeMillis(Local) - events[Local][i].at = MESSAGE_CACHE_DURATION
  /\ Deliveries(Local) = {}
  /\ net = EmptyBag

\* ------------------------------------------------------------------------
\* C3  TTL boundedness
\* ------------------------------------------------------------------------
HopFieldOf(raw) == parseParts(raw)[3]

\* The hop count an envelope carries.
HopOf(raw) == parseHopCount(HopFieldOf(raw))

\* The devices a payload in flight is sent to.
TargetsOf(inFlight) == {m.to : m \in DOMAIN inFlight}

IsChain == Devices = Node /\ connectedEndpoints[Sender] = {ChainOrder[2]}

IsTriangle == Devices = UNION TriangleEdges

IsRing == Devices = UNION RingEdges

\* C3: for a message originated with hop count 0, every envelope in flight
\* carries a hop count in 0..MAX_HOPS, an envelope of hop count h >= 1 was
\* forwarded by a device that received it at h - 1 (one relay action per
\* hop), and on a chain the device at distance p of the origin receives at
\* hop p - 1, so that only the first MAX_HOPS relays ever transmit and no
\* device further than MAX_HOPS + 1 links away receives the message.
C3_TTLBoundedness ==
  /\ \A m \in DOMAIN net :
       /\ toIntOrNull(HopFieldOf(m.raw)) # <<>>
       /\ HopOf(m.raw) \in 0..MAX_HOPS
       /\ HopOf(m.raw) = 0 <=> m.from = Sender
       /\ HopOf(m.raw) >= 1 =>
            \E i \in Deliveries(m.from) : events[m.from][i].hopCount = HopOf(m.raw) - 1
  /\ \A n \in Devices : \A i \in Deliveries(n) : events[n][i].hopCount \in 0..MAX_HOPS
  /\ IsChain =>
       /\ \A n \in Devices : \A i \in Deliveries(n) :
            /\ Position(n) <= MAX_HOPS + 1
            /\ events[n][i].hopCount = Position(n) - 1
       /\ \A m \in DOMAIN net : Position(m.from) <= MAX_HOPS

\* On the chain, the device MAX_HOPS + 1 links from the origin has received
\* the message at hop MAX_HOPS and has transmitted nothing.
C3_Witness ==
  /\ IsChain
  /\ last.op = "onPayloadReceived"
  /\ Position(last.node) = MAX_HOPS + 1
  /\ HopOf(last.raw) = MAX_HOPS
  /\ \E i \in Deliveries(last.node) : events[last.node][i].hopCount = MAX_HOPS
  /\ net = EmptyBag

\* ------------------------------------------------------------------------
\* C4  TTL boundary
\* ------------------------------------------------------------------------
\* The envelope has not been seen by device n.
Unseen(n, raw) ==
  ~containsKey(seenMessages[n], messageHash(parseParts(raw)[1], parseParts(raw)[4]))

\* The step appended one onMessageReceived event for raw to the log of n.
Surfaced(n, raw) ==
  /\ Len(events'[n]) = Len(events[n]) + 1
  /\ LET ev == events'[n][Len(events'[n])] IN
       /\ IsDelivery(ev)
       /\ ev.fromAddress = parseParts(raw)[1]
       /\ ev.message = parseParts(raw)[4]
       /\ ev.hopCount = HopOf(raw)

\* C4: an unseen envelope that arrives with hop count MAX_HOPS is surfaced
\* through onMessageReceived and nothing is sent on any link; an unseen
\* envelope with a hop count below MAX_HOPS is surfaced and, where there is
\* another link, sent on with the hop count plus one.
C4_TTLBoundary ==
  [][\A e \in Peers : \A raw \in HopPayloads :
       (/\ onPayloadReceived(Local, e, raw, net)
        /\ e \in connectedEndpoints[Local]
        /\ Unseen(Local, raw)
        /\ toIntOrNull(HopFieldOf(raw)) # <<>>
        /\ HopOf(raw) \in 0..MAX_HOPS)
       => /\ Surfaced(Local, raw)
          /\ IF HopOf(raw) = MAX_HOPS
             THEN net' = net
             ELSE /\ (connectedEndpoints[Local] \ {e} # {}) => net' # net
                  /\ \A m \in DOMAIN net' : HopOf(m.raw) = HopOf(raw) + 1]_vars

\* An envelope at hop MAX_HOPS was received and surfaced while both links
\* were up, and nothing was sent.
C4_Witness ==
  /\ ReceivedEnvelope
  /\ LastHopField = IntToString(MAX_HOPS)
  /\ connectedEndpoints[Local] = Peers
  /\ Len(events[Local]) > 0
  /\ LET ev == events[Local][Len(events[Local])] IN
       IsDelivery(ev) /\ ev.hopCount = MAX_HOPS
  /\ net = EmptyBag

\* ------------------------------------------------------------------------
\* C5  Fan-out exclusion
\* ------------------------------------------------------------------------
\* C5: a received envelope that is forwarded is sent once to every link that
\* is up when it is forwarded, except the arrival link; a received envelope
\* is never sent on the arrival link.
C5_FanOutExclusion ==
  [][\A e \in Peers : \A raw \in HopPayloads :
       (onPayloadReceived(Local, e, raw, net) /\ e \in connectedEndpoints[Local])
       => /\ \A m \in DOMAIN net' : m.to # e /\ m.from = Local /\ net'[m] = 1
          /\ (events' # events /\ HopOf(raw) < MAX_HOPS)
               => TargetsOf(net') = connectedEndpoints[Local] \ {e}
          /\ net' # net => TargetsOf(net') = connectedEndpoints[Local] \ {e}]_vars

\* An envelope that arrived from B while the link to C was up has been sent
\* to C and to C only.
C5_Witness ==
  /\ ReceivedEnvelope
  /\ last.endpoint = "B"
  /\ connectedEndpoints[Local] = Peers
  /\ TargetsOf(net) = {"C"}

\* ------------------------------------------------------------------------
\* C6  Eviction allows resend
\* ------------------------------------------------------------------------
\* C6: an envelope that arrives when more than MESSAGE_CACHE_DURATION has
\* passed since its pair (origin_id, content) was delivered is treated as
\* new, whatever else the device received in between: once an envelope has
\* been received the device has an onMessageReceived event for its pair that
\* is no older than the retention window.
C6_EvictionAllowsResend ==
  ReceivedEnvelope =>
    \E i \in DeliveriesOf(last.node, LastOrigin, LastContent) :
      currentTimeMillis(last.node) - events[last.node][i].timestamp <= MESSAGE_CACHE_DURATION

\* ------------------------------------------------------------------------
\* C7  Malformed envelope
\* ------------------------------------------------------------------------
\* C7: a payload with fewer than 4 fields is discarded: the step that
\* receives it emits no event, sends nothing, leaves seenMessages and the
\* links as they were, and the device goes on receiving (an envelope that
\* follows it is delivered as it would have been).
C7_MalformedEnvelope ==
  [][/\ \A e \in Peers : \A raw \in MalformedPayloads :
          onPayloadReceived(Local, e, raw, net)
            => /\ events' = events
               /\ net' = net
               /\ seenMessages' = seenMessages
               /\ connectedEndpoints' = connectedEndpoints
     /\ \A e \in Peers : \A raw \in InboundPayloads(Local) \ MalformedPayloads :
          (/\ last.op = "onPayloadReceived" /\ last.raw \in MalformedPayloads
           /\ onPayloadReceived(Local, e, raw, net)
           /\ Unseen(Local, raw))
            => Surfaced(Local, raw)]_vars

\* A malformed payload arrived at a device with a link up and a record in
\* its cache, and left the device with that one record and one event.
C7_Witness ==
  /\ last.op = "onPayloadReceived"
  /\ last.raw \in MalformedPayloads
  /\ last.endpoint \in connectedEndpoints[Local]
  /\ Cardinality(DOMAIN seenMessages[Local]) = 1
  /\ Len(events[Local]) = 1
  /\ net = EmptyBag

\* ------------------------------------------------------------------------
\* C8  Invalid hop count
\* ------------------------------------------------------------------------
\* The hop-count fields that are no non-negative integer.
InvalidHopFields ==
  {h \in HopFields : toIntOrNull(h) = <<>> \/ (toIntOrNull(h) # <<>> /\ toIntOrNull(h)[1] < 0)}

\* C8: an envelope whose hop-count field is no non-negative integer is
\* dropped: the step that receives it emits no event, sends nothing and
\* records nothing.
C8_InvalidHopCount ==
  [][\A e \in Peers : \A raw \in HopPayloads :
       (onPayloadReceived(Local, e, raw, net) /\ HopFieldOf(raw) \in InvalidHopFields)
         => /\ events' = events
            /\ net' = net
            /\ seenMessages' = seenMessages]_vars

\* ------------------------------------------------------------------------
\* C9  Network-wide at-most-once delivery
\* ------------------------------------------------------------------------
\* The number of onMessageReceived events of device n.
Delivered(n) == Cardinality(Deliveries(n))

\* C9: on the triangle A-B-C with stable links, whatever the order in which
\* the payloads arrive, A emits no onMessageReceived event for the message
\* it sent, B and C emit at most one each, and exactly one each once the
\* message has been sent and no copy of it is in flight.
C9_AtMostOnceDelivery ==
  IsTriangle =>
    /\ Delivered(Sender) = 0
    /\ \A n \in Devices \ {Sender} : Delivered(n) <= 1
    /\ (seenMessages[Sender] # << >> /\ net = EmptyBag)
         => \A n \in Devices \ {Sender} : Delivered(n) = 1

\* On the triangle B, which had the message from A, has received the copy C
\* forwarded; B and C have one event each and no copy is in flight.
C9_Witness ==
  /\ IsTriangle
  /\ last.op = "onPayloadReceived"
  /\ last.node = "B"
  /\ last.endpoint = "C"
  /\ HopOf(last.raw) = 1
  /\ \E i \in Deliveries("B") : events["B"][i].hopCount = 0
  /\ Delivered("B") = 1
  /\ Delivered("C") = 1
  /\ net = EmptyBag

\* ------------------------------------------------------------------------
\* C10  Bounded propagation and loop-freedom
\* ------------------------------------------------------------------------
\* The copies device n has in flight.
InFlightFrom(inFlight, n) ==
  BagCardinality([m \in {k \in DOMAIN inFlight : k.from = n} |-> inFlight[m]])

\* Device n relays: a step in which it receives and sends.
Relays(n) ==
  /\ last'.op = "onPayloadReceived"
  /\ last'.node = n
  /\ InFlightFrom(net', n) > InFlightFrom(net, n)

DocumentedMaxHops == 5

\* The device of the chain that is k links from the sender.
ChainDevice(k) == ChainOrder[k + 1]

\* C11: on the chain, with the hop limit of 5 the documents give, a message
\* sent by A is delivered at B..G with the hop count growing by one per
\* relay, G (6 links from A) receives it with hop count 5 and sends nothing,
\* and no device beyond G receives anything.
C11_LinearChainReach ==
  IsChain =>
    /\ \A n \in Devices : \A i \in Deliveries(n) : events[n][i].hopCount = Position(n) - 1
    /\ (seenMessages[Sender] # << >> /\ net = EmptyBag)
         => \A k \in 1..(DocumentedMaxHops + 1) : Delivered(ChainDevice(k)) = 1
    /\ \A m \in DOMAIN net : m.from # ChainDevice(DocumentedMaxHops + 1)
    /\ \A n \in Devices : Position(n) > DocumentedMaxHops + 1 => Deliveries(n) = {}

\* ------------------------------------------------------------------------
\* SpecLoop: a mesh with a long way round
\* ------------------------------------------------------------------------
\* The chain with one more link, from the sender to the device MAX_HOPS + 1
\* links down the chain: that device is one link from the sender and
\* MAX_HOPS + 1 links from it the long way round, and the last device of
\* the chain hangs off it.
LoopEdges == ChainEdges \cup {{ChainOrder[1], ChainOrder[MAX_HOPS + 2]}}

InitLoop == Connected(LoopEdges)

MeshBroadcast == \E m \in Contents, s \in Names : sendMessage(Sender, m, s, NoAddress)

NextLoop ==
  \/ MeshBroadcast
  \/ Deliver
  \/ Quiet /\ Tick

SpecLoop == InitLoop /\ [][NextLoop]_vars

\* Every payload in flight is eventually delivered.
SpecLoopFair == SpecLoop /\ WF_vars(Deliver)

\* ------------------------------------------------------------------------
\* C12  Mesh coverage
\* ------------------------------------------------------------------------
\* The devices at most k links from the sender.
WithinHops(k) ==
  LET W[j \in 0..k] ==
        IF j = 0 THEN {Sender}
        ELSE W[j - 1] \cup UNION {connectedEndpoints[n] : n \in W[j - 1]}
  IN W[k]

\* The sender has sent its message.
Sent == seenMessages[Sender] # << >>

\* C12: on stable links, once the sender has sent, every device at most
\* MAX_HOPS links from it eventually has an onMessageReceived event,
\* whatever the order in which the copies arrive.
C12_MeshCoverage ==
  \A n \in Node \ {Sender} :
    [](Sent /\ n \in WithinHops(MAX_HOPS) => <>(n \in Devices /\ Delivered(n) >= 1))

\* ------------------------------------------------------------------------
\* SpecCodec: one device receiving what its peers encode
\* ------------------------------------------------------------------------
\* Display names without the delimiter in them; one ends with a "|".
CodecNames == {<<"n">>, <<"n", "|">>}

\* The hop counts of a sent and of a forwarded envelope.
CodecHops == {0, 9}

\* Contents: the empty one, and one with the delimiter in it.
CodecContents == {<<>>, <<"a">> \o MESSAGE_SEPARATOR \o <<"b">>}

\* The wire strings the peers build, as sendMessage and the forward do.
CodecPayloads ==
  {formatMessage(RemoteOrigin, s, h, c) : s \in CodecNames, h \in CodecHops, c \in CodecContents}

CodecPayloadReceived ==
  \E e \in connectedEndpoints[Local] : \E raw \in CodecPayloads :
    onPayloadReceived(Local, e, raw, net)

NextCodec ==
  \/ net = EmptyBag /\ LinkUp
  \/ net = EmptyBag /\ CodecPayloadReceived
  \/ net = EmptyBag /\ Disconnect
  \/ PeersTake

SpecCodec == Init /\ [][NextCodec]_vars

\* ------------------------------------------------------------------------
\* C13  Codec round-trip
\* ------------------------------------------------------------------------
\* C13: for an origin id and a display name without the delimiter in them
\* and a hop count >= 0, the wire string decodes (split capped at 4 fields)
\* to the same origin id, display name, hop count and content, also when the
\* content is empty or has the delimiter in it; the event of a receipt
\* carries these four values.
C13_CodecRoundTrip ==
  [][\A e \in Peers : \A s \in CodecNames : \A h \in CodecHops : \A c \in CodecContents :
       (/\ IndexOf(s, MESSAGE_SEPARATOR) = 0
        /\ IndexOf(RemoteOrigin, MESSAGE_SEPARATOR) = 0
        /\ onPayloadReceived(Local, e, formatMessage(RemoteOrigin, s, h, c), net))
       => /\ parseParts(formatMessage(RemoteOrigin, s, h, c))
               = <<RemoteOrigin, s, IntToString(h), c>>
          /\ parseHopCount(parseParts(formatMessage(RemoteOrigin, s, h, c))[3]) = h
          /\ events' # events =>
               LET ev == events'[Local][Len(events'[Local])] IN
                 /\ ev.fromAddress = RemoteOrigin
                 /\ ev.senderName = s
                 /\ ev.hopCount = h
                 /\ ev.message = c]_vars

\* ------------------------------------------------------------------------
\* C14  Send origination order
\* ------------------------------------------------------------------------
\* C14: every sendMessage call, targeted or broadcast, builds an envelope
\* with hop count 0 under the device's own origin id, and whenever it has put
\* that envelope on a link the device's cache holds the envelope's
\* fingerprint.
C14_SendOriginationOrder ==
  [][\A n \in Devices : \A m \in Contents : \A s \in Names :
       \A t \in Node \cup {NoAddress} :
         sendMessage(n, m, s, t)
         => /\ \A p \in DOMAIN (net' (-) net) :
                 /\ p.from = n
                 /\ p.raw = formatFields(localEndpointId'[n], s, <<"0">>, m)
            /\ containsKey(seenMessages'[n], messageHash(localEndpointId'[n], m))]_vars

\* C14 witness: a targeted send has put its envelope on the link.
C14_Witness ==
  /\ last.op = "sendMessage"
  /\ last.endpoint # NoAddress
  /\ \E p \in DOMAIN net : p.from = last.node /\ p.to = last.endpoint

\* ------------------------------------------------------------------------
\* C15  NoPeers
\* ------------------------------------------------------------------------
\* C15: a broadcast send made while the device has no connected link puts
\* nothing in flight, emits onMessageError ("No connected peers") and no
\* onMessageSent; a broadcast send made with at least one connected link
\* emits onMessageSent and no onMessageError.
C15_NoPeers ==
  [][\A m \in Contents : \A s \in Names :
       sendMessage(Local, m, s, NoAddress)
       => LET ev == events'[Local][Len(events'[Local])] IN
          /\ Len(events'[Local]) = Len(events[Local]) + 1
          /\ sendTasks' = sendTasks
          /\ IF connectedEndpoints[Local] = {}
             THEN /\ net' = net
                  /\ ev.name = "onMessageError"
                  /\ ev.error = "No connected peers"
                  /\ CountEvents(Local, "onMessageSent")' = CountEvents(Local, "onMessageSent")
             ELSE /\ ev.name = "onMessageSent"
                  /\ ev.message = m
                  /\ ev.targetAddress = NoAddress
                  /\ CountEvents(Local, "onMessageError")' = CountEvents(Local, "onMessageError")]_vars

\* C15 witness: a broadcast send was made with no connected link.
C15_Witness ==
  /\ last.op = "sendMessage"
  /\ last.endpoint = NoAddress
  /\ connectedEndpoints[Local] = {}
  /\ CountEvents(Local, "onMessageError") = 1

\* ------------------------------------------------------------------------
\* SpecDrop: a triangle whose devices may give up their links
\* ------------------------------------------------------------------------
InitDrop == Connected(TriangleEdges)

\* A device other than the sender calls disconnect.
PeerDisconnect ==
  \E n \in DOMAIN connectedEndpoints \ {Sender} :
    connectedEndpoints[n] # {} /\ disconnect(n)

\* A device learns that the far end of one of its links is gone.
LinkLost ==
  \E n \in DOMAIN connectedEndpoints : \E e \in connectedEndpoints[n] :
    ~transmits(n, e) /\ onDisconnected(n, e)

NextDrop ==
  \/ MeshSend
  \/ SendResult
  \/ Deliver
  \/ PeerDisconnect
  \/ LinkLost

SpecDrop == InitDrop /\ [][NextDrop]_vars

\* ------------------------------------------------------------------------
\* C16  TransmitFailed handling
\* ------------------------------------------------------------------------
\* The payload of device n to endpoint t gained a copy in flight.
PutInFlight(n, t, raw) ==
  CopiesIn([from |-> n, to |-> t, raw |-> raw], net')
    = CopiesIn([from |-> n, to |-> t, raw |-> raw], net) + 1

\* C16: in a fan-out (a broadcast send, a forward) every link that transmits
\* gets the payload whatever happens on the other links, and the device has
\* no onMessageError for the links that failed (a broadcast emits
\* onMessageSent); a targeted send whose transmission fails puts nothing in
\* flight and its result emits onMessageError and no onMessageSent.
C16_TransmitFailed ==
  [][/\ \A m \in Contents : \A s \in Names :
          (sendMessage(Sender, m, s, NoAddress) /\ connectedEndpoints[Sender] # {})
          => /\ \A t \in connectedEndpoints[Sender] :
                  transmits(Sender, t)
                  => PutInFlight(Sender, t, formatMessage(localEndpointId[Sender], s, 0, m))
             /\ events'[Sender][Len(events'[Sender])].name = "onMessageSent"
             /\ CountEvents(Sender, "onMessageError")' = CountEvents(Sender, "onMessageError")
     /\ \A p \in DOMAIN net :
          (/\ onPayloadReceived(p.to, p.from, p.raw, net (-) SetToBag({p}))
           /\ events' # events
           /\ HopOf(p.raw) < MAX_HOPS)
          => /\ \A t \in connectedEndpoints[p.to] \ {p.from} :
                  transmits(p.to, t)
                  => \E q \in DOMAIN net' :
                       /\ q.from = p.to /\ q.to = t
                       /\ PutInFlight(p.to, t, q.raw)
             /\ CountEvents(p.to, "onMessageError")' = CountEvents(p.to, "onMessageError")
     /\ \A m \in Contents : \A s \in Names : \A t \in connectedEndpoints[Sender] :
          (sendMessage(Sender, m, s, t) /\ ~transmits(Sender, t))
          => /\ net' = net
             /\ events' = events
             /\ \E task \in DOMAIN sendTasks' : task.targetAddress = t /\ ~task.success
     /\ \A task \in DOMAIN sendTasks :
          (onSendPayloadResult(task) /\ ~task.success)
          => /\ events'[task.node][Len(events'[task.node])].name = "onMessageError"
             /\ CountEvents(task.node, "onMessageSent")' = CountEvents(task.node, "onMessageSent")]_vars

\* C16 witness: a broadcast send went out on one link while the transmission
\* on another link failed.
C16_Witness ==
  /\ last.op = "sendMessage"
  /\ last.endpoint = NoAddress
  /\ \E t \in connectedEndpoints[Sender] : ~transmits(Sender, t)
  /\ \E p \in DOMAIN net : p.from = Sender
  /\ CountEvents(Sender, "onMessageSent") = 1

\* ------------------------------------------------------------------------
\* SpecApp: one device and every method the application can call on it
\* ------------------------------------------------------------------------
\* What a method that touches neither the links nor the cache leaves alone.
\* localDeviceName is not part of the state here.
NoRelayState ==
  UNCHANGED <<connectedEndpoints, discoveredEndpoints, seenMessages, localEndpointId,
              now, net, sendTasks, chatVars>>

\* @ReactMethod init
init(n) ==
  /\ Ran("init", n, NoAddress, <<>>)
  /\ sendEvent(n, ConnectionEvent("onInitialized", NoAddress))
  /\ NoRelayState

\* @ReactMethod setDeviceName
setDeviceName(n, deviceName) ==
  /\ Ran("setDeviceName", n, NoAddress, deviceName)
  /\ UNCHANGED events
  /\ NoRelayState

\* @ReactMethod discoverPeers: startAdvertising and startDiscovery
discoverPeers(n) ==
  /\ Ran("discoverPeers", n, NoAddress, <<>>)
  /\ sendEvent(n, ConnectionEvent("onDiscoveryStateChanged", NoAddress))
  /\ NoRelayState

\* A stopDiscovery that also gives up the endpoints, as disconnect does.
stopDiscoveryAndEndpoints(n) ==
  /\ Ran("stopDiscovery", n, NoAddress, <<>>)
  /\ connectedEndpoints' = [connectedEndpoints EXCEPT ![n] = {}]
  /\ seenMessages' = [seenMessages EXCEPT ![n] = clearSeen(@)]
  /\ sendEvent(n, ConnectionEvent("onDiscoveryStateChanged", NoAddress))
  /\ UNCHANGED <<discoveredEndpoints, localEndpointId, now, net, sendTasks, chatVars>>

\* @ReactMethod stopDiscovery: stopDiscovery and stopAdvertising
stopDiscovery(n) ==
  /\ Ran("stopDiscovery", n, NoAddress, <<>>)
  /\ sendEvent(n, ConnectionEvent("onDiscoveryStateChanged", NoAddress))
  /\ NoRelayState

\* @ReactMethod connectToPeer: requestConnection; the link itself comes with
\* a later onConnectionResult.
connectToPeer(n, peerAddress) ==
  /\ Ran("connectToPeer", n, peerAddress, <<>>)
  /\ \E requested \in BOOLEAN :
       IF requested THEN UNCHANGED events
       ELSE sendEvent(n, ConnectionEvent("onConnectionError", peerAddress))
  /\ NoRelayState

\* @ReactMethod addListener
addListener(n) ==
  /\ Ran("addListener", n, NoAddress, <<>>)
  /\ UNCHANGED events
  /\ NoRelayState

\* @ReactMethod removeListeners
removeListeners(n) ==
  /\ Ran("removeListeners", n, NoAddress, <<>>)
  /\ UNCHANGED events
  /\ NoRelayState

\* @ReactMethod getLocalEndpointId: promise.resolve(localEndpointId)
getLocalEndpointId(n) ==
  /\ Ran("getLocalEndpointId", n, NoAddress, localEndpointId[n])
  /\ UNCHANGED events
  /\ NoRelayState

\* The application's calls that are neither sendMessage nor disconnect.
OtherCall(n) ==
  \/ init(n)
  \/ \E deviceName \in Names : setDeviceName(n, deviceName)
  \/ discoverPeers(n)
  \/ stopDiscovery(n)
  \/ \E peerAddress \in Peers : connectToPeer(n, peerAddress)
  \/ addListener(n)
  \/ removeListeners(n)
  \/ getLocalEndpointId(n)

NextApp ==
  \/ net = EmptyBag /\ LinkUp
  \/ net = EmptyBag /\ EnvelopeReceived
  \/ net = EmptyBag /\ Broadcast
  \/ net = EmptyBag /\ Disconnect
  \/ net = EmptyBag /\ OtherCall(Local)
  \/ PeersTake

SpecApp == Init /\ [][NextApp]_vars

\* ------------------------------------------------------------------------
\* C19  Application isolation
\* ------------------------------------------------------------------------
\* The step removed no record of the cache and no link of device n.
NothingRemoved(n) ==
  /\ connectedEndpoints'[n] = connectedEndpoints[n]
  /\ \A h \in DOMAIN seenMessages[n] : h \in DOMAIN seenMessages'[n]

\* The step is a sendMessage call of device n.
SendCall(n) ==
  \E m \in Contents : \E s \in Names : sendMessage(n, m, s, NoAddress)

\* C19 as stated: no call of the application changes the cache or the set of
\* links, but for the record a sendMessage inserts; no call removes a
\* record or a link.
C19_AsStated ==
  [][/\ (OtherCall(Local) \/ disconnect(Local))
          => /\ connectedEndpoints' = connectedEndpoints
             /\ seenMessages' = seenMessages
     /\ SendCall(Local) => NothingRemoved(Local)]_vars

\* C19 (amended): init, setDeviceName, discoverPeers, stopDiscovery,
\* connectToPeer, addListener, removeListeners and getLocalEndpointId change
\* neither the cache nor the set of links; sendMessage leaves the links
\* alone and removes no record; disconnect, the one call that removes
\* anything, empties both.
C19_AppIsolation ==
  [][/\ OtherCall(Local)
          => /\ connectedEndpoints' = connectedEndpoints
             /\ seenMessages' = seenMessages
     /\ SendCall(Local) => NothingRemoved(Local)
     /\ disconnect(Local)
          => /\ connectedEndpoints'[Local] = {}
             /\ DOMAIN seenMessages'[Local] = {}]_vars

\* C19 witness: the application has called stopDiscovery on a device that
\* has a link and a record.
C19_Witness ==
  /\ last.op = "stopDiscovery"
  /\ connectedEndpoints[Local] # {}
  /\ DOMAIN seenMessages[Local] # {}

\* ------------------------------------------------------------------------
\* C20  Seen-record immutability
\* ------------------------------------------------------------------------
\* The fingerprints whose record is in the cache of n before and after the
\* step.
Kept(n) == DOMAIN seenMessages[n] \cap DOMAIN seenMessages'[n]

\* The step is a sendMessage call of device n for the fingerprint h.
SendOf(n, h) ==
  \E m \in Contents : \E s \in Names :
    /\ sendMessage(n, m, s, NoAddress)
    /\ h = messageHash(localEndpointId'[n], m)

\* C20 as stated: a record that stays in the cache keeps its timestamp
\* through every step, receives and sends of its fingerprint included.
C20_AsStated ==
  [][\A h \in Kept(Local) : seenMessages'[Local][h] = seenMessages[Local][h]]_vars

\* C20 (amended): a record that stays in the cache keeps its timestamp
\* through every step but a sendMessage of its own fingerprint, which sets
\* it to the time of the send; no receive changes it.
C20_SeenRecordImmutability ==
  [][\A h \in Kept(Local) :
       seenMessages'[Local][h] # seenMessages[Local][h]
       => /\ SendOf(Local, h)
          /\ seenMessages'[Local][h] = currentTimeMillis(Local)]_vars

\* C20 witness: the device sends a content whose fingerprint it recorded
\* earlier on a receipt, and the record now holds the time of the send.
C20_Witness ==
  /\ last.op = "sendMessage"
  /\ CountEvents(Local, "onDisconnected") = 0
  /\ \E i \in 1..Len(events[Local]) :
       /\ Deliveries(Local) = {i}
       /\ events[Local][i].fromAddress = localEndpointId[Local]
       /\ events[Local][i].message = last.raw
       /\ LET h == messageHash(localEndpointId[Local], last.raw) IN
            /\ containsKey(seenMessages[Local], h)
            /\ seenMessages[Local][h] > events[Local][i].timestamp

\* ------------------------------------------------------------------------
\* C21  Documented chain limit
\* ------------------------------------------------------------------------
\* C21: on the chain A-B-C-D-E-F-G, with the hop limit of 5 the documents
\* give, the message A sends reaches F, F receives it with hop count 5 and
\* sends nothing, and G receives nothing.
C21_DocumentedChainLimit ==
  IsChain =>
    /\ (seenMessages[Sender] # << >> /\ net = EmptyBag)
         => Delivered(ChainDevice(DocumentedMaxHops)) = 1
    /\ \A i \in Deliveries(ChainDevice(DocumentedMaxHops)) :
         events[ChainDevice(DocumentedMaxHops)][i].hopCount = DocumentedMaxHops
    /\ \A m \in DOMAIN net : m.from # ChainDevice(DocumentedMaxHops)
    /\ Deliveries(ChainDevice(DocumentedMaxHops + 1)) = {}

\* ------------------------------------------------------------------------
\* C22  Forwarded envelope
\* ------------------------------------------------------------------------
\* C22: every envelope a relay forwards decodes to the origin id, the
\* display name and the content of the envelope it received, and to the hop
\* count the relay decoded from it plus one.
C22_ForwardedEnvelope ==
  [][\A e \in Peers : \A raw \in HopPayloads :
       onPayloadReceived(Local, e, raw, net)
       => \A m \in DOMAIN (net' (-) net) :
            /\ Len(parseParts(m.raw)) = 4
            /\ parseParts(m.raw)[1] = parseParts(raw)[1]
            /\ parseParts(m.raw)[2] = parseParts(raw)[2]
            /\ parseParts(m.raw)[4] = parseParts(raw)[4]
            /\ toIntOrNull(HopFieldOf(m.raw)) = <<HopOf(raw) + 1>>]_vars

\* C22 witness: an envelope that came with hop count 9 has been forwarded
\* with hop count 10.
C22_Witness ==
  /\ ReceivedEnvelope
  /\ LastHopField = <<"9">>
  /\ \E m \in DOMAIN net : m.from = Local /\ HopFieldOf(m.raw) = <<"1", "0">>

\* ------------------------------------------------------------------------
\* SpecDelim: a triangle or a ring, with a display name that holds the delimiter
\* ------------------------------------------------------------------------
\* A display name without the delimiter and one with it.
DelimNames == {<<"n">>, <<"a">> \o MESSAGE_SEPARATOR \o <<"b">>}

InitDelim == \E edges \in {TriangleEdges, RingEdges} : Connected(edges)

DelimSend ==
  \E m \in Contents, s \in DelimNames, t \in connectedEndpoints[Sender] \cup {NoAddress} :
    sendMessage(Sender, m, s, t)

NextDelim ==
  \/ DelimSend
  \/ SendResult
  \/ Deliver

SpecDelim == InitDelim /\ [][NextDelim]_vars

\* ------------------------------------------------------------------------
\* C23  Fingerprint stability
\* ------------------------------------------------------------------------
\* C23: whatever the display name and the hop count of its envelopes, a
\* message has one fingerprint: every record of every device of the mesh is
\* under the fingerprint of the sender's origin id and the content it sent,
\* the one the sender recorded.
C23_FingerprintStability ==
  \A n \in Devices : \A h \in DOMAIN seenMessages[n] :
    /\ \E c \in Contents : h = messageHash(localEndpointId[Sender], c)
    /\ h \in DOMAIN seenMessages[Sender]

\* ------------------------------------------------------------------------
\* C24  A targeted send is not confined to its target
\* ------------------------------------------------------------------------
\* The targets of the targeted sends the sender has made.
TargetedTo ==
  ({task.targetAddress : task \in DOMAIN sendTasks}
     \cup {events[Sender][i].targetAddress : i \in EventsNamed(Sender, "onMessageSent")})
    \ {NoAddress}

\* The sender has made targeted sends only.
TargetedOnly ==
  /\ TargetedTo # {}
  /\ \A i \in EventsNamed(Sender, "onMessageSent") :
       events[Sender][i].targetAddress # NoAddress

\* What the step put in flight when it took payload p off its link.
Forwarded(p) == net' (-) (net (-) SetToBag({p}))

\* C24: the envelope of a targeted send is handled as any other: a device
\* that receives it unseen, the target or not, surfaces it and, if its hop
\* count is below MAX_HOPS, sends it with the hop count plus one to each of
\* its links but the arrival link; at MAX_HOPS it sends nothing.
C24_TargetedNotConfined ==
  [][\A p \in DOMAIN net :
       (/\ TargetedOnly
        /\ onPayloadReceived(p.to, p.from, p.raw, net (-) SetToBag({p}))
        /\ Unseen(p.to, p.raw))
       => /\ Surfaced(p.to, p.raw)
          /\ IF HopOf(p.raw) < MAX_HOPS
             THEN /\ TargetsOf(Forwarded(p)) = connectedEndpoints[p.to] \ {p.from}
                  /\ \A m \in DOMAIN Forwarded(p) :
                       /\ m.from = p.to
                       /\ HopOf(m.raw) = HopOf(p.raw) + 1
                       /\ parseParts(m.raw)[4] = parseParts(p.raw)[4]
             ELSE Forwarded(p) = EmptyBag]_vars

\* C24 witness: a device that is neither the sender nor the target of a
\* targeted send has an onMessageReceived event for it.
C24_Witness ==
  /\ TargetedOnly
  /\ \E n \in Devices \ ({Sender} \cup TargetedTo) :
       \E i \in Deliveries(n) :
         /\ events[n][i].fromAddress = localEndpointId[Sender]
         /\ events[n][i].message \in Contents

\* ------------------------------------------------------------------------
\* C25  Display name containing the delimiter
\* ------------------------------------------------------------------------
\* The payload is an envelope under the sender's origin id on its way back
\* to the sender.
IsEcho(p) ==
  /\ p.to = Sender
  /\ parseParts(p.raw)[1] = localEndpointId[Sender]

\* C25: a send with a display name that holds the delimiter puts envelopes
\* in flight whose decoded content, and so fingerprint, is not the one the
\* sender recorded; the first such envelope to come back to the sender is
\* surfaced there and forwarded on its other links. The envelope of a send
\* with a display name without the delimiter that comes back is dropped.
C25_DelimiterInName ==
  [][/\ \A m \in Contents : \A s \in DelimNames :
          \A t \in connectedEndpoints[Sender] \cup {NoAddress} :
            (sendMessage(Sender, m, s, t) /\ IndexOf(s, MESSAGE_SEPARATOR) # 0)
            => \A p \in DOMAIN (net' (-) net) :
                 /\ parseParts(p.raw)[4] # m
                 /\ messageHash(parseParts(p.raw)[1], parseParts(p.raw)[4])
                      # messageHash(localEndpointId'[Sender], m)
     /\ \A p \in DOMAIN net :
          (IsEcho(p) /\ onPayloadReceived(p.to, p.from, p.raw, net (-) SetToBag({p})))
          => IF parseParts(p.raw)[4] \in Contents
             THEN events' = events /\ Forwarded(p) = EmptyBag
             ELSE Delivered(Sender) = 0
                  => /\ Surfaced(Sender, p.raw)
                     /\ HopOf(p.raw) < MAX_HOPS
                     /\ TargetsOf(Forwarded(p)) = connectedEndpoints[Sender] \ {p.from}]_vars

\* C25 witness: the sender has an onMessageReceived event for its own
\* message, under a content it did not send, and has forwarded it.
C25_Witness ==
  /\ last.op = "onPayloadReceived"
  /\ last.node = Sender
  /\ \E i \in Deliveries(Sender) :
       /\ events[Sender][i].fromAddress = localEndpointId[Sender]
       /\ events[Sender][i].message \notin Contents
  /\ \E p \in DOMAIN net : p.from = Sender /\ HopOf(p.raw) > 0

\* ------------------------------------------------------------------------
\* SpecKeys: one device receiving two messages whose keys coincide
\* ------------------------------------------------------------------------
\* Two pairs (origin id, content) with the same "$origin:$content".
AmbiguousPairs ==
  {<< <<"a", ":", "b">>, <<"c">> >>, << <<"a">>, <<"b", ":", "c">> >>}

KeyPayloads ==
  {formatFields(pr[1], s, <<"0">>, pr[2]) : pr \in AmbiguousPairs, s \in Names}

KeyPayloadReceived ==
  \E e \in connectedEndpoints[Local] : \E raw \in KeyPayloads :
    onPayloadReceived(Local, e, raw, net)

NextKeys ==
  \/ net = EmptyBag /\ LinkUp
  \/ net = EmptyBag /\ KeyPayloadReceived
  \/ net = EmptyBag /\ Disconnect
  \/ net = EmptyBag /\ Tick
  \/ PeersTake

SpecKeys == Init /\ [][NextKeys]_vars

\* ------------------------------------------------------------------------
\* C26  Dedup key ambiguity
\* ------------------------------------------------------------------------
\* The pair was delivered at device n within the retention window, and n
\* has not called disconnect since.
DeliveredWithinWindow(n, pr) ==
  \E i \in DeliveriesOf(n, pr[1], pr[2]) :
    /\ \A k \in (i + 1)..Len(events[n]) : events[n][k].name # "onDisconnected"
    /\ currentTimeMillis(n) - events[n][i].timestamp <= MESSAGE_CACHE_DURATION

\* C26: an envelope of one of two pairs (origin id, content) with the same
\* concatenation origin ":" content, arriving within the retention window of
\* the delivery of the other pair, is dropped: no event, nothing sent,
\* nothing recorded.
C26_DedupKeyAmbiguity ==
  [][\A e \in Peers : \A s \in Names : \A pr \in AmbiguousPairs :
       \A other \in AmbiguousPairs \ {pr} :
         (/\ onPayloadReceived(Local, e, formatFields(pr[1], s, <<"0">>, pr[2]), net)
          /\ DeliveredWithinWindow(Local, other))
         => /\ events' = events
            /\ net' = net
            /\ seenMessages' = seenMessages]_vars

\* C26 witness: the device, with a link besides the arrival link, has just
\* received the pair ("a", "b:c") after delivering ("a:b", "c"), and its
\* only onMessageReceived event is the one of ("a:b", "c").
C26_Witness ==
  /\ ReceivedEnvelope
  /\ LastOrigin = <<"a">>
  /\ LastContent = <<"b", ":", "c">>
  /\ connectedEndpoints[Local] = Peers
  /\ DeliveredWithinWindow(Local, << <<"a", ":", "b">>, <<"c">> >>)
  /\ DeliveriesOf(Local, <<"a">>, <<"b", ":", "c">>) = {}

\* ------------------------------------------------------------------------
\* SpecReset: one device that discovers, connects, sends, receives and
\* disconnects, all within one retention window
\* ------------------------------------------------------------------------
EndpointFound ==
  \E e \in Peers : \E endpointName \in Names : onEndpointFound(Local, e, endpointName)

EndpointLost == \E e \in Peers : onEndpointLost(Local, e)

NextReset ==
  \/ net = EmptyBag /\ EndpointFound
  \/ net = EmptyBag /\ EndpointLost
  \/ net = EmptyBag /\ LinkUp
  \/ net = EmptyBag /\ EnvelopeReceived
  \/ net = EmptyBag /\ Broadcast
  \/ net = EmptyBag /\ Disconnect
  \/ PeersTake

SpecReset == Init /\ [][NextReset]_vars

\* ------------------------------------------------------------------------
\* C27  disconnect() resets the relay state
\* ------------------------------------------------------------------------
\* The device has an event for the pair (a delivery, or a send of the
\* content under its own origin id), and disconnect is the last thing its
\* log shows.
SeenBeforeDisconnect(n, origin, content) ==
  /\ Len(events[n]) > 0
  /\ events[n][Len(events[n])].name = "onDisconnected"
  /\ \/ DeliveriesOf(n, origin, content) # {}
     \/ origin = localEndpointId[n] /\ SentOf(n, content) # {}

\* C27: disconnect empties the set of links, the map of discovered
\* endpoints and the cache and leaves the local origin id as it is; an
\* envelope of a pair the device delivered or sent before the disconnect
\* that arrives after it, within the retention window, is surfaced and
\* sent on every link but the arrival link.
C27_DisconnectResets ==
  [][/\ disconnect(Local)
          => /\ connectedEndpoints'[Local] = {}
             /\ DOMAIN discoveredEndpoints'[Local] = {}
             /\ DOMAIN seenMessages'[Local] = {}
             /\ localEndpointId' = localEndpointId
     /\ \A e \in Peers : \A raw \in InboundPayloads(Local) \ MalformedPayloads :
          (/\ onPayloadReceived(Local, e, raw, net)
           /\ e \in connectedEndpoints[Local]
           /\ SeenBeforeDisconnect(Local, parseParts(raw)[1], parseParts(raw)[4]))
          => /\ Surfaced(Local, raw)
             /\ TargetsOf(net') = connectedEndpoints[Local] \ {e}]_vars

\* C27 witness: the device sent a content, disconnected, has both links
\* again, and has just surfaced and forwarded its own envelope, all at the
\* same time of the clock.
C27_Witness ==
  /\ ReceivedEnvelope
  /\ LastOrigin = localEndpointId[Local]
  /\ connectedEndpoints[Local] = Peers
  /\ net # EmptyBag
  /\ Len(events[Local]) = 3
  /\ events[Local][1].name = "onMessageSent"
  /\ events[Local][1].message = LastContent
  /\ events[Local][2].name = "onDisconnected"
  /\ IsDelivery(events[Local][3])
  /\ events[Local][3].timestamp = events[Local][1].at

\* ------------------------------------------------------------------------
\* SpecMark: one device that receives and makes targeted and broadcast
\* sends, to peers that are connected or not, while time passes
\* ------------------------------------------------------------------------
AnySend ==
  \E m \in Contents, s \in Names, t \in Peers \cup {NoAddress} : sendMessage(Local, m, s, t)

\* The one peer the device gets a link to; the other peer is never connected.
MarkLinkUp == onConnectionResult(Local, "B", TRUE)

MarkLinkDown == onDisconnected(Local, "B")

\* The result of a targeted send comes before the next handler runs.
NextMark ==
  \/ Quiet /\ MarkLinkUp
  \/ Quiet /\ MarkLinkDown
  \/ Quiet /\ EnvelopeReceived
  \/ Quiet /\ AnySend
  \/ net = EmptyBag /\ SendResult
  \/ Quiet /\ Tick
  \/ PeersTake

SpecMark == Init /\ [][NextMark]_vars

\* ------------------------------------------------------------------------
\* C28  Send marks unconditionally
\* ------------------------------------------------------------------------
\* C28: every sendMessage call, whatever its outcome, leaves the record of
\* its fingerprint at the current time, inserted or overwritten, and every
\* other record as it was, expired or not; the result of a targeted send,
\* success or failure, changes no record.
C28_SendMarksUnconditionally ==
  [][/\ \A m \in Contents : \A s \in Names : \A t \in Peers \cup {NoAddress} :
          sendMessage(Local, m, s, t)
          => LET h == messageHash(localEndpointId'[Local], m) IN
             /\ DOMAIN seenMessages'[Local] = DOMAIN seenMessages[Local] \cup {h}
             /\ seenMessages'[Local][h] = currentTimeMillis(Local)
             /\ \A k \in DOMAIN seenMessages[Local] \ {h} :
                  seenMessages'[Local][k] = seenMessages[Local][k]
     /\ \A task \in DOMAIN sendTasks :
          onSendPayloadResult(task) => seenMessages' = seenMessages]_vars

\* The cache of n holds a record older than the retention window.
HoldsExpired(n) ==
  \E k \in DOMAIN seenMessages[n] :
    currentTimeMillis(n) - seenMessages[n][k] > MESSAGE_CACHE_DURATION

\* C28 witness: a broadcast send has just ended in "No connected peers" on
\* a device whose cache holds the record of the send and an expired one.
C28_Witness ==
  /\ last.op = "sendMessage"
  /\ last.endpoint = NoAddress
  /\ connectedEndpoints[Local] = {}
  /\ events[Local][Len(events[Local])].name = "onMessageError"
  /\ containsKey(seenMessages[Local], messageHash(localEndpointId[Local], last.raw))
  /\ HoldsExpired(Local)

\* ------------------------------------------------------------------------
\* SpecId: one device whose connections succeed or fail, that sends and
\* disconnects while time passes
\* ------------------------------------------------------------------------
NextId ==
  \/ net = EmptyBag /\ ConnectionResult
  \/ net = EmptyBag /\ LinkDown
  \/ net = EmptyBag /\ Broadcast
  \/ net = EmptyBag /\ Disconnect
  \/ net = EmptyBag /\ Tick
  \/ PeersTake

SpecId == Init /\ [][NextId]_vars

\* ------------------------------------------------------------------------
\* C29  Stable origin id
\* ------------------------------------------------------------------------
\* The step is a successful connection result or a sendMessage call.
AssigningStep ==
  \/ \E e \in Peers : onConnectionResult(Local, e, TRUE)
  \/ \E m \in Contents : \E s \in Names : sendMessage(Local, m, s, NoAddress)

\* C29: the local origin id is set by the first successful connection
\* result or the first sendMessage call, whichever comes first, and by
\* nothing else; once set, no step changes it; every envelope the device
\* originates carries it.
C29_StableOriginId ==
  [][/\ localEndpointId[Local] # <<>> => localEndpointId'[Local] = localEndpointId[Local]
     /\ localEndpointId'[Local] # localEndpointId[Local] => AssigningStep
     /\ AssigningStep => localEndpointId'[Local] # <<>>
     /\ \A m \in Contents : \A s \in Names :
          sendMessage(Local, m, s, NoAddress)
          => \A p \in DOMAIN net' : parseParts(p.raw)[1] = localEndpointId'[Local]]_vars

\* C29 witness: the device sends, at a later time and after a disconnect
\* and a new connection, under the id it got at time 0.
C29_Witness ==
  /\ last.op = "sendMessage"
  /\ now > 0
  /\ EventsNamed(Local, "onDisconnected") # {}
  /\ localEndpointId[Local] = newLocalEndpointId(ClockOffset(Local))
  /\ \E p \in DOMAIN net : parseParts(p.raw)[1] = localEndpointId[Local]

\* ------------------------------------------------------------------------
\* SpecChat: the personal chat screen (usePersonalChat) above the relay.
\* The user of device Local has the chat with one friend open; the users of
\* the peers send direct messages from their own chat screens.
\* ------------------------------------------------------------------------
\* JavaScript String.startsWith
startsWith(s, prefix) == HasAt(s, prefix, 1)

\* JavaScript String.split(separator, limit): the string is split at every
\* separator and the first `limit` fields are kept; the rest is dropped.
jsSplit(s, separator, limit) ==
  LET fields == Split(s, separator, Len(s) + 1)
  IN SubSeq(fields, 1, IF Len(fields) < limit THEN Len(fields) ELSE limit)

\* The order Array.sort() puts strings in: by UTF-16 code units.
StringBefore[s \in Seq(Chars), t \in Seq(Chars)] ==
  IF s = <<>> THEN TRUE
  ELSE IF t = <<>> THEN FALSE
  ELSE IF Head(s) # Head(t) THEN CharCode(Head(s)) < CharCode(Head(t))
  ELSE StringBefore[Tail(s), Tail(t)]

\* generateSharedKey: the SHA-256 digest of the salt and the two ids in
\* sorted order.  The digest is kept as the pair it is the digest of.
generateSharedKey(myId, friendPersistentId) ==
  IF StringBefore[myId, friendPersistentId]
  THEN myId \o <<"+">> \o friendPersistentId
  ELSE friendPersistentId \o <<"+">> \o myId

\* encryptMessage: AES under the key, as a base64 string.  The ciphertext is
\* kept as a term that names its key; "U" is how a CryptoJS ciphertext
\* starts, and a base64 string holds no ":".
CipherHeader(sharedKey) == <<"U">> \o sharedKey \o <<"+">>

encryptMessage(message, sharedKey) == CipherHeader(sharedKey) \o message

\* decryptMessage: the plain text under the right key; the text it was
\* given when the key is wrong or the text is no ciphertext.
decryptMessage(encryptedMessage, sharedKey) ==
  IF /\ startsWith(encryptedMessage, CipherHeader(sharedKey))
     /\ Len(encryptedMessage) > Len(CipherHeader(sharedKey))
  THEN SubSeq(encryptedMessage, Len(CipherHeader(sharedKey)) + 1, Len(encryptedMessage))
  ELSE encryptedMessage

DIRECT_MSG == <<"D", "I", "R", "E", "C", "T", "_", "M", "S", "G", ":">>

\* The user of device Local, and the friend whose chat is open.
myPersistentId == <<"a">>

friendId == <<"b">>

friendName == <<"n">>

\* The users of the peers: the friend is at "B", somebody else at "C".
PersistentIdOf(p) == IF p = "B" THEN <<"b">> ELSE <<"c">>

\* The origin id of the device of each peer.
OriginOf(p) == IF p = "B" THEN RemoteOrigin ELSE <<"l", "o", "c", "a", "l", "-", "2">>

\* The device address the application sees for the endpoint of a peer.
deviceAddress(p) == <<p>>

\* usePersonalChat.handleSendMessage: the message and the sender name it
\* hands to sendMessage.
handleSendMessage(myId, myUsername, friend, messageText) ==
  LET sharedKey == generateSharedKey(myId, friend)
      encryptedContent == encryptMessage(messageText, sharedKey)
      directMessage == DIRECT_MSG \o friend \o <<":">> \o encryptedContent
      senderIdentifier == myUsername \o <<"|">> \o myId
  IN [message |-> directMessage, senderName |-> senderIdentifier]

\* Whom the users of the peers write to.
ChatTargets == {myPersistentId, friendId}

\* The envelope the device of peer p sends when its user writes c to t.
DirectEnvelope(p, username, t, c) ==
  LET call == handleSendMessage(PersistentIdOf(p), username, t, c)
  IN formatMessage(OriginOf(p), call.senderName, 0, call.message)

\* The envelopes of the direct messages of the peers' users, and a
\* broadcast message of the friend.
ChatPayloads ==
  {DirectEnvelope(r[1], n, r[2], c) :
     r \in {q \in Peers \X ChatTargets : q[2] # PersistentIdOf(q[1])},
     n \in Names, c \in Contents}
  \cup {formatMessage(OriginOf("B"), n, 0, c) : n \in Names, c \in Contents}

\* The id of the chat message built from an onMessageReceived event:
\* `${data.timestamp}-${data.fromAddress}`
messageId(data) == IntToString(data.timestamp) \o <<"-">> \o data.fromAddress

\* The onPeersFound listener of usePersonalChat, for the list updatePeersList
\* emits: the connected peers whose device name is "name|persistentId".
onPeersFoundListener ==
  LET peers == DOMAIN discoveredEndpoints[Local]
      named == {e \in peers : /\ e \in connectedEndpoints[Local]
                              /\ Len(jsSplit(discoveredEndpoints[Local][e], <<"|">>,
                                             Len(discoveredEndpoints[Local][e]) + 1)) = 2}
      newPeerIdMap == [a \in {deviceAddress(e) : e \in named} |->
                         LET e == CHOOSE f \in named : deviceAddress(f) = a
                         IN jsSplit(discoveredEndpoints[Local][e], <<"|">>,
                                    Len(discoveredEndpoints[Local][e]) + 1)[2]]
  IN
  /\ connectedPeerIds # newPeerIdMap
  /\ connectedPeerIds' = newPeerIdMap
  /\ Ran("onPeersFoundListener", Local, NoAddress, <<>>)
  /\ UNCHANGED <<connectedEndpoints, discoveredEndpoints, seenMessages, localEndpointId,
                 now, events, net, sendTasks, messages, chatHistory, handled>>

\* Whether the listener takes a direct message as one to show: the target
\* it names is the local user.
isForMe(targetPersistentId) == targetPersistentId = myPersistentId

\* The onMessageReceived listener of usePersonalChat, run for the next
\* event of the device; events of another name go to other listeners.
onMessageReceivedListener ==
  /\ handled < Len(events[Local])
  /\ handled' = handled + 1
  /\ Ran("onMessageReceivedListener", Local, NoAddress, <<>>)
  /\ LET data == events[Local][handled + 1]
         parts == jsSplit(data.message, <<":">>, 3)
     IN IF /\ data.name = "onMessageReceived"
           /\ startsWith(data.message, DIRECT_MSG)
           /\ Len(parts) = 3
           /\ isForMe(parts[2])
        THEN LET messageContent == parts[3]
                 known == data.fromAddress \in DOMAIN connectedPeerIds
                 sharedKey == IF known
                              THEN generateSharedKey(myPersistentId,
                                                     connectedPeerIds[data.fromAddress])
                              ELSE generateSharedKey(myPersistentId, friendId)
                 newMessage == [id |-> messageId(data),
                                text |-> decryptMessage(messageContent, sharedKey),
                                fromAddress |-> data.fromAddress,
                                senderName |-> friendName,
                                timestamp |-> data.timestamp,
                                isSent |-> FALSE]
                 isDuplicate == \E i \in 1..Len(messages) : messages[i].id = newMessage.id
             IN IF isDuplicate
                THEN UNCHANGED <<messages, chatHistory>>
                ELSE /\ messages' = Append(messages, newMessage)
                     /\ chatHistory' = [f \in DOMAIN chatHistory \cup {friendId} |->
                                          IF f = friendId THEN Append(messages, newMessage)
                                          ELSE chatHistory[f]]
        ELSE UNCHANGED <<messages, chatHistory>>
  /\ UNCHANGED <<connectedEndpoints, discoveredEndpoints, seenMessages, localEndpointId,
                 now, events, net, sendTasks, connectedPeerIds>>

\* A peer is found under the device name of its user.
ChatEndpointFound ==
  \E e \in Peers, n \in Names :
    onEndpointFound(Local, e, n \o <<"|">> \o PersistentIdOf(e))

\* A direct or a broadcast message of a peer's user arrives on a link.
ChatPayloadReceived ==
  \E e \in connectedEndpoints[Local] : \E raw \in ChatPayloads :
    onPayloadReceived(Local, e, raw, net)

NextChat ==
  \/ net = EmptyBag /\ ChatEndpointFound
  \/ net = EmptyBag /\ LinkUp
  \/ net = EmptyBag /\ ChatPayloadReceived
  \/ net = EmptyBag /\ onPeersFoundListener
  \/ net = EmptyBag /\ onMessageReceivedListener
  \/ PeersTake

SpecChat == Init /\ [][NextChat]_vars

\* The user whose device has the origin id `origin`.
UserOf(origin) == PersistentIdOf(CHOOSE p \in Peers : OriginOf(p) = origin)

\* The received messages the chat with the friend shows, and those stored
\* under the friend's id.
ShownInChat ==
  {messages[i] : i \in 1..Len(messages)}
  \cup (IF friendId \in DOMAIN chatHistory
       THEN {chatHistory[friendId][i] : i \in 1..Len(chatHistory[friendId])}
       ELSE {})

\* The events of the device a chat message was built from.
EventsOf(m) ==
  {ev \in {events[Local][k] : k \in 1..Len(events[Local])} :
     ev.name = "onMessageReceived" /\ messageId(ev) = m.id}

\* The event is a direct message addressed to the user `target`.
IsDirectTo(ev, target) ==
  /\ startsWith(ev.message, DIRECT_MSG)
  /\ Len(jsSplit(ev.message, <<":">>, 3)) = 3
  /\ jsSplit(ev.message, <<":">>, 3)[2] = target

\* C30: a direct message is in the personal chat with the friend, and in
\* the history stored under the friend's id, only if it is addressed to the
\* local user and was sent by the friend; a direct message of anybody else
\* is not shown there.
C30_DirectMessageAttribution ==
  \A m \in ShownInChat :
    ~m.isSent =>
      \E ev \in EventsOf(m) :
        /\ IsDirectTo(ev, myPersistentId)
        /\ UserOf(ev.fromAddress) = friendId

\* ------------------------------------------------------------------------
\* SpecEvict: the receive path of one device under a clock that also moves
\* by one millisecond, so that records are aged just under, exactly and just
\* over one retention window when the eviction pass runs
\* ------------------------------------------------------------------------
EvictOrigins == {OriginOf("B"), OriginOf("C"), <<"l", "o", "c", "a", "l", "-", "3">>}

\* Envelopes of three origins: three records in the cache.
EvictPayloads == {formatMessage(o, s, 0, c) : o \in EvictOrigins, s \in Names, c \in Contents}

EvictPayloadReceived ==
  \E e \in connectedEndpoints[Local] : \E raw \in EvictPayloads :
    onPayloadReceived(Local, e, raw, net)

\* Time passes: one millisecond, once in a window.
TickMillisecond ==
  /\ now % MESSAGE_CACHE_DURATION = 0
  /\ now' = now + 1
  /\ Ran("tick", Local, NoAddress, <<>>)
  /\ UNCHANGED <<connectedEndpoints, discoveredEndpoints, seenMessages, localEndpointId,
                 events, net, sendTasks, chatVars>>

\* One link is up, so the device has nobody to forward to.
NextEvict ==
  \/ MarkLinkUp
  \/ EvictPayloadReceived
  \/ Tick
  \/ TickMillisecond

SpecEvict == Init /\ [][NextEvict]_vars

\* ------------------------------------------------------------------------
\* C31  Eviction pass
\* ------------------------------------------------------------------------
\* The fingerprint of an envelope.
HashOfEnvelope(raw) == messageHash(parseParts(raw)[1], parseParts(raw)[4])

\* C31: the eviction pass of a receive at time t removes exactly the records
\* with t - first_seen > 60000 ms and leaves every other record, one aged
\* exactly 60000 ms included, as it was; the record the receive has just
\* inserted, with timestamp t, is in the cache after the pass.
C31_EvictionPass ==
  [][(last'.op = "onPayloadReceived" /\ last'.raw \in EvictPayloads /\ Unseen(Local, last'.raw))
       => LET h == HashOfEnvelope(last'.raw)
              t == currentTimeMillis(Local)
              before == seenMessages[Local]
              after == seenMessages'[Local]
          IN /\ h \in DOMAIN after
             /\ after[h] = t
             /\ DOMAIN after \subseteq DOMAIN before \cup {h}
             /\ \A k \in DOMAIN before :
                  IF t - before[k] > 60000
                  THEN k \notin DOMAIN after
                  ELSE k \in DOMAIN after /\ after[k] = before[k]]_vars

\* The events of messages whose record is no longer in the cache.
Evicted(n) ==
  {i \in Deliveries(n) :
     messageHash(events[n][i].fromAddress, events[n][i].message) \notin DOMAIN seenMessages[n]}

\* C31 witness: a receive has just run its pass; the record it inserted is
\* there, a record aged exactly 60000 ms is still there, and a record that
\* was 60001 ms old is gone.
C31_Witness ==
  /\ last.op = "onPayloadReceived"
  /\ \E k \in DOMAIN seenMessages[Local] : seenMessages[Local][k] = currentTimeMillis(Local)
  /\ \E k \in DOMAIN seenMessages[Local] :
       currentTimeMillis(Local) - seenMessages[Local][k] = 60000
  /\ \E i \in Evicted(Local) : currentTimeMillis(Local) - events[Local][i].timestamp = 60001
====
